---- MODULE Spec2Model ----
(***************************************************************************)
(* Model of the documentation/code comparison pipeline of veritas:         *)
(*   app/comparison/semantic_matcher.py  (SemanticMatcher)                  *)
(*   app/comparison/hybrid_engine.py     (HybridComparator)                 *)
(*   app/comparison/engine.py            (GeminiComparator)                 *)
(*   app/comparison/scorer.py            (match_functions,                  *)
(*                                        analyze_repository)               *)
(*                                                                          *)
(* Strings that the code inspects character by character (function names,   *)
(* parameter names, docstring words) are sequences of one-character         *)
(* strings.  Optional strings (type, default, return_type) use "" for both  *)
(* None and the empty string: the code only tests them for truthiness.      *)
(* Python floats are modelled as exact rationals <<numerator, denominator>> *)
(* with a positive denominator.                                             *)
(***************************************************************************)
EXTENDS Integers, Sequences, FiniteSets, TLC

(* ---------------------------------------------------------------------- *)
(* Bounds of the model                                                     *)
(* ---------------------------------------------------------------------- *)
MaxCode == 2
MaxDoc == 2

(* ---------------------------------------------------------------------- *)
(* Exact rational arithmetic standing for Python float arithmetic          *)
(* ---------------------------------------------------------------------- *)
RECURSIVE Gcd(_, _)
Gcd(a, b) == IF b = 0 THEN a ELSE Gcd(b, a % b)

\* n / d in lowest terms, d > 0
Rat(n, d) ==
    LET g == Gcd(IF n < 0 THEN -n ELSE n, d)
    IN IF g = 0 THEN <<n, d>> ELSE <<n \div g, d \div g>>
RAdd(a, b) == Rat(a[1] * b[2] + b[1] * a[2], a[2] * b[2])
RMul(a, b) == Rat(a[1] * b[1], a[2] * b[2])
RLt(a, b) == a[1] * b[2] < b[1] * a[2]
RGe(a, b) == ~RLt(a, b)
RGt(a, b) == RLt(b, a)
REq(a, b) == a[1] * b[2] = b[1] * a[2]
RMax(a, b) == IF RLt(a, b) THEN b ELSE a

\* int(x) of Python: truncation toward zero of the quotient a / b, b > 0
TruncDiv(a, b) == IF a >= 0 THEN a \div b ELSE -((-a) \div b)

\* int(score * 100)
ToPercent(r) == TruncDiv(100 * r[1], r[2])

Min2(a, b) == IF a < b THEN a ELSE b
Max2(a, b) == IF a < b THEN b ELSE a
Abs(a) == IF a < 0 THEN -a ELSE a

(* ---------------------------------------------------------------------- *)
(* Characters and strings                                                  *)
(* ---------------------------------------------------------------------- *)
UpperChars == <<"A","B","C","D","E","F","G","H","I","J","K","L","M",
                "N","O","P","Q","R","S","T","U","V","W","X","Y","Z">>
LowerChars == <<"a","b","c","d","e","f","g","h","i","j","k","l","m",
                "n","o","p","q","r","s","t","u","v","w","x","y","z">>
DigitChars == {"0","1","2","3","4","5","6","7","8","9"}

UpperSet == {UpperChars[i] : i \in 1..26}
LowerSet == {LowerChars[i] : i \in 1..26}
LowerOf == [c \in UpperSet |-> LowerChars[CHOOSE i \in 1..26 : UpperChars[i] = c]]

IsUpper(c) == c \in UpperSet
IsLower(c) == c \in LowerSet
IsLowerOrDigit(c) == IsLower(c) \/ c \in DigitChars

\* str.lower() on one character
LowerChar(c) == IF IsUpper(c) THEN LowerOf[c] ELSE c

\* str.lower()
Lower(s) == [i \in 1..Len(s) |-> LowerChar(s[i])]

\* str.replace(a, b) for single characters
ReplaceChar(s, a, b) == [i \in 1..Len(s) |-> IF s[i] = a THEN b ELSE s[i]]

\* set(s): the characters of a string
CharSet(s) == {s[i] : i \in 1..Len(s)}

\* last position of the run of non-blank characters that contains position j
RECURSIVE WordEnd(_, _)
WordEnd(s, j) == IF j + 1 <= Len(s) /\ s[j + 1] # " " THEN WordEnd(s, j + 1) ELSE j

\* set(s.split()): the maximal runs of non-blank characters
SplitWords(s) ==
    {SubSeq(s, i, WordEnd(s, i)) :
        i \in {k \in 1..Len(s) : s[k] # " " /\ (k = 1 \/ s[k - 1] = " ")}}

\* a plausible slip: the overlap is divided by the size of the first set
Jaccard_OverFirst(A, B) == Rat(Cardinality(A \cap B), Cardinality(A))

\* common / total of two sets, as a rational (total > 0 is the caller's guard)
Jaccard(A, B) == Rat(Cardinality(A \cap B), Cardinality(A \cup B))

(* ---------------------------------------------------------------------- *)
(* SemanticMatcher: name similarity                                        *)
(* ---------------------------------------------------------------------- *)
\* end of the run of lower-case letters that starts at position j
RECURSIVE LowerRunEnd(_, _)
LowerRunEnd(s, j) ==
    IF j + 1 <= Len(s) /\ IsLower(s[j + 1]) THEN LowerRunEnd(s, j + 1) ELSE j

\* re.sub('(.)([A-Z][a-z]+)', r'\1_\2', s), scanning from position i
RECURSIVE CamelPass1(_, _)
CamelPass1(s, i) ==
    IF i > Len(s) THEN <<>>
    ELSE IF i + 2 <= Len(s) /\ IsUpper(s[i + 1]) /\ IsLower(s[i + 2])
         THEN LET e == LowerRunEnd(s, i + 2)
              IN <<s[i], "_">> \o SubSeq(s, i + 1, e) \o CamelPass1(s, e + 1)
         ELSE <<s[i]>> \o CamelPass1(s, i + 1)

\* re.sub('([a-z0-9])([A-Z])', r'\1_\2', s), scanning from position i
RECURSIVE CamelPass2(_, _)
CamelPass2(s, i) ==
    IF i > Len(s) THEN <<>>
    ELSE IF i + 1 <= Len(s) /\ IsLowerOrDigit(s[i]) /\ IsUpper(s[i + 1])
         THEN <<s[i], "_", s[i + 1]>> \o CamelPass2(s, i + 2)
         ELSE <<s[i]>> \o CamelPass2(s, i + 1)

\* SemanticMatcher._normalize_name
NormalizeName(name) ==
    ReplaceChar(Lower(CamelPass2(CamelPass1(name, 1), 1)), "_", " ")

\* one row of the edit-distance table: the inner loop of _levenshtein_similarity
RECURSIVE LevRow(_, _, _, _)
LevRow(s1, c2, distances, new) ==
    IF Len(new) = Len(s1) + 1 THEN new
    ELSE LET i1 == Len(new)
             v == IF s1[i1] = c2
                  THEN distances[i1]
                  ELSE 1 + Min2(Min2(distances[i1], distances[i1 + 1]), new[i1])
         IN LevRow(s1, c2, distances, Append(new, v))

\* the outer loop of _levenshtein_similarity, from character i2 of s2 on
RECURSIVE LevRows(_, _, _, _)
LevRows(s1, s2, i2, distances) ==
    IF i2 > Len(s2) THEN distances
    ELSE LevRows(s1, s2, i2 + 1, LevRow(s1, s2[i2], distances, <<i2>>))

\* SemanticMatcher._levenshtein_similarity
LevenshteinSimilarity(a, b) ==
    IF Len(a) = 0 \/ Len(b) = 0 THEN Rat(0, 1)
    ELSE LET s1 == IF Len(a) > Len(b) THEN b ELSE a
             s2 == IF Len(a) > Len(b) THEN a ELSE b
             distances == LevRows(s1, s2, 1, [k \in 1..(Len(s1) + 1) |-> k - 1])
             max_len == Max2(Len(s1), Len(s2))
             distance == distances[Len(s1) + 1]
         IN RMax(Rat(0, 1), Rat(max_len - distance, max_len))

\* SemanticMatcher._name_similarity
NameSimilarity(name1, name2) ==
    LET name1_lower == Lower(name1)
        name2_lower == Lower(name2)
        norm1 == NormalizeName(name1)
        norm2 == NormalizeName(name2)
        words1 == SplitWords(norm1)
        words2 == SplitWords(norm2)
        jaccard == Jaccard(words1, words2)
    IN IF name1_lower = name2_lower THEN Rat(1, 1)
       ELSE IF norm1 = norm2 THEN Rat(95, 100)
       ELSE IF words1 # {} /\ words2 # {} /\ RGe(jaccard, Rat(7, 10)) THEN Rat(85, 100)
       ELSE IF words1 # {} /\ words2 # {} /\ RGe(jaccard, Rat(5, 10)) THEN Rat(70, 100)
       ELSE IF words1 # {} /\ words2 # {} /\ RGt(jaccard, Rat(3, 10)) THEN Rat(50, 100)
       ELSE LevenshteinSimilarity(name1_lower, name2_lower)

(* ---------------------------------------------------------------------- *)
(* SemanticMatcher: feature similarity                                     *)
(* ---------------------------------------------------------------------- *)
\* number of positions i < min_len whose two types are present and equal
TypeMatches(ps1, ps2) ==
    Cardinality({i \in 1..Min2(Len(ps1), Len(ps2)) :
        ps1[i].type # "" /\ ps2[i].type # "" /\ ps1[i].type = ps2[i].type})

\* SemanticMatcher._feature_similarity
FeatureSimilarity(func1, func2) ==
    LET params1 == Len(func1.parameters)
        params2 == Len(func2.parameters)
        param_part ==
            IF params1 > 0 \/ params2 > 0
            THEN RMul(Rat(3, 10),
                      Rat(Max2(Max2(params1, params2), 1) - Abs(params1 - params2),
                          Max2(Max2(params1, params2), 1)))
            ELSE Rat(0, 1)
        ret_part ==
            IF func1.return_type # "" /\ func2.return_type # ""
            THEN (IF func1.return_type = func2.return_type
                  THEN Rat(2, 10) ELSE Rat(1, 10))
            ELSE IF func1.return_type = "" /\ func2.return_type = ""
            THEN Rat(2, 10)
            ELSE Rat(1, 10)
        type_part ==
            IF params1 > 0 /\ params2 > 0
            THEN RMul(Rat(3, 10),
                      Rat(TypeMatches(func1.parameters, func2.parameters),
                          Max2(params1, params2)))
            ELSE Rat(15, 100)
        words1 == SplitWords(Lower(func1.docstring))
        words2 == SplitWords(Lower(func2.docstring))
        doc_part ==
            IF Len(func1.docstring) > 0 /\ Len(func2.docstring) > 0
               /\ words1 # {} /\ words2 # {}
            THEN RMul(Rat(2, 10), Jaccard(words1, words2))
            ELSE Rat(1, 10)
    IN RAdd(RAdd(param_part, ret_part), RAdd(type_part, doc_part))

(* ---------------------------------------------------------------------- *)
(* SemanticMatcher: embedding signal and combined score                    *)
(* ---------------------------------------------------------------------- *)
\* func.docstring[:200] keeps at most this many characters
DocSummaryLen == 200

\* The behaviours of the optional text encoder that the model draws from:
\*   "none"      no encoder could be loaded (self.encoder is None)
\*   "raises"    encoder.encode raises
\*   "opposite"  equal texts are encoded to the same vector (cosine 1),
\*               different texts to opposite vectors (cosine -1)
EncoderKinds == {"none", "raises", "opposite"}

\* SemanticMatcher._encode_function: the text handed to the encoder
EncodeFunction(func) ==
    <<func.name,
      [i \in 1..Len(func.parameters) |->
          <<func.parameters[i].name, func.parameters[i].type, func.parameters[i].default>>],
      func.return_type,
      ReplaceChar(SubSeq(func.docstring, 1, Min2(Len(func.docstring), DocSummaryLen)),
                  "\n", " ")>>

\* cosine of the two encodings under encoder behaviour enc, as a rational
Cosine(func1, func2, enc) ==
    IF EncodeFunction(func1) = EncodeFunction(func2) THEN Rat(1, 1) ELSE Rat(-1, 1)

\* SemanticMatcher._embedding_similarity: max(0, (similarity + 1) / 2)
EmbeddingSimilarity(func1, func2, enc) ==
    RMax(Rat(0, 1), RMul(RAdd(Cosine(func1, func2, enc), Rat(1, 1)), Rat(1, 2)))

\* SemanticMatcher.compute_similarity
ComputeSimilarity(func1, func2, enc) ==
    LET name_score == NameSimilarity(func1.name, func2.name)
        feature_score == FeatureSimilarity(func1, func2)
    IN IF enc \notin {"none", "raises"}
       THEN [score |-> RAdd(RMul(Rat(6, 10), EmbeddingSimilarity(func1, func2, enc)),
                            RAdd(RMul(Rat(2, 10), name_score),
                                 RMul(Rat(2, 10), feature_score))),
             method |-> "hybrid_embedding",
             confidence |-> Rat(9, 10)]
       ELSE [score |-> RAdd(RMul(Rat(1, 2), name_score), RMul(Rat(1, 2), feature_score)),
             method |-> "hybrid_fallback",
             confidence |-> Rat(7, 10)]

(* ---------------------------------------------------------------------- *)
(* SemanticMatcher.find_best_matches and scorer.match_functions            *)
(* A pair is <<code index, doc index>>; index 0 stands for None.           *)
(* ---------------------------------------------------------------------- *)
\* similarity threshold passed by match_functions
MatchThreshold == Rat(5, 10)

\* doc_map.get(key): index of the LAST doc whose lower-cased name is key, else 0
DocMapGet(docs, key) ==
    LET hits == {i \in 1..Len(docs) : Lower(docs[i].name) = key}
    IN IF hits = {} THEN 0 ELSE CHOOSE i \in hits : \A j \in hits : j <= i

\* one iteration of the inner loop of find_best_matches: doc i against the best
\* so far; best is [idx, score] and changes only for a strictly greater score
BestStep(code_func, docs, used, enc, i, best) ==
    IF i \in used THEN best
    ELSE LET score == ComputeSimilarity(code_func, docs[i], enc).score
         IN IF RGt(score, best.score) THEN [idx |-> i, score |-> score] ELSE best

\* the inner loop of find_best_matches, from doc i on
RECURSIVE BestDoc(_, _, _, _, _, _)
BestDoc(code_func, docs, used, enc, i, best) ==
    IF i > Len(docs) THEN best
    ELSE BestDoc(code_func, docs, used, enc, i + 1,
                 BestStep(code_func, docs, used, enc, i, best))

\* the exact-name test of find_best_matches ("if doc_func:")
ExactNameHit(docs, code_func) == DocMapGet(docs, Lower(code_func.name)) # 0

\* one iteration of the loop over code_functions in find_best_matches
\* acc is [matches, used, sim_calls]
MatchStep(codes, docs, enc, c, acc) ==
    IF ExactNameHit(docs, codes[c])
    THEN LET doc_idx == DocMapGet(docs, Lower(codes[c].name))
         IN [matches |-> Append(acc.matches, <<c, doc_idx>>),
             used |-> acc.used \cup {doc_idx},
             sim_calls |-> acc.sim_calls]
    ELSE LET best == BestDoc(codes[c], docs, acc.used, enc, 1,
                             [idx |-> 0, score |-> Rat(0, 1)])
             accepted == best.idx # 0 /\ RGe(best.score, MatchThreshold)
         IN [matches |-> Append(acc.matches, <<c, IF accepted THEN best.idx ELSE 0>>),
             used |-> IF accepted THEN acc.used \cup {best.idx} ELSE acc.used,
             sim_calls |-> acc.sim_calls + Cardinality((1..Len(docs)) \ acc.used)]

\* the loop over code_functions in find_best_matches, from code index c on
RECURSIVE MatchLoop(_, _, _, _, _)
MatchLoop(codes, docs, enc, c, acc) ==
    IF c > Len(codes) THEN acc
    ELSE MatchLoop(codes, docs, enc, c + 1, MatchStep(codes, docs, enc, c, acc))

\* the doc-only pairs appended after the loop, in doc order
RECURSIVE UnmatchedDocs(_, _, _)
UnmatchedDocs(n, skip, i) ==
    IF i > n THEN <<>>
    ELSE IF i \in skip THEN UnmatchedDocs(n, skip, i + 1)
    ELSE <<(<<0, i>>)>> \o UnmatchedDocs(n, skip, i + 1)

\* SemanticMatcher.find_best_matches
FindBestMatches(codes, docs, enc) ==
    LET acc == MatchLoop(codes, docs, enc, 1,
                         [matches |-> <<>>, used |-> {}, sim_calls |-> 0])
    IN [matches |-> acc.matches \o UnmatchedDocs(Len(docs), acc.used, 1),
        sim_calls |-> acc.sim_calls]

\* the name-only fallback of match_functions
NameOnlyMatches(codes, docs) ==
    LET code_names == {Lower(codes[c].name) : c \in 1..Len(codes)}
        named == {i \in 1..Len(docs) : Lower(docs[i].name) \in code_names}
    IN [c \in 1..Len(codes) |-> <<c, DocMapGet(docs, Lower(codes[c].name))>>]
       \o UnmatchedDocs(Len(docs), named, 1)

\* scorer.match_functions
MatchFunctions(codes, docs, use_semantic_matching, enc) ==
    IF use_semantic_matching /\ Len(codes) > 0 /\ Len(docs) > 0
    THEN FindBestMatches(codes, docs, enc)
    ELSE [matches |-> NameOnlyMatches(codes, docs), sim_calls |-> 0]

(* ---------------------------------------------------------------------- *)
(* Issues.  An issue keeps its severity, the function it is about, the     *)
(* message template and the parameter the message names (<<>> if none).    *)
(* ---------------------------------------------------------------------- *)
NoParam == <<>>
MkIssue(severity, function, issue, param) ==
    [severity |-> severity, function |-> function, issue |-> issue, param |-> param]

(* ---------------------------------------------------------------------- *)
(* GeminiComparator: replies of the reasoning service and their parsing    *)
(* ---------------------------------------------------------------------- *)
\* A reply is text without a JSON object ("garbage"), a JSON object whose
\* confidence is a number ("json"), or a JSON object whose confidence is not
\* a number ("json_bad_confidence", the confidence field is then unused).
Replies ==
    { [kind |-> "garbage", matches |-> FALSE, confidence |-> 0, issues |-> <<>>],
      [kind |-> "json", matches |-> TRUE, confidence |-> 95, issues |-> <<>>],
      [kind |-> "json", matches |-> FALSE, confidence |-> 40,
       issues |-> << [severity |-> "high", issue |-> "service text"] >>],
      [kind |-> "json", matches |-> FALSE, confidence |-> 150,
       issues |-> << [severity |-> "critical", issue |-> "service text"] >>],
      [kind |-> "json", matches |-> FALSE, confidence |-> -20,
       issues |-> << [severity |-> "critical", issue |-> "service text"] >>],
      [kind |-> "json_bad_confidence", matches |-> TRUE, confidence |-> 0,
       issues |-> <<>>] }

\* int(result.get("confidence", 0)) raises for a non-numeric value
ParseRaises(reply) == reply.kind = "json_bad_confidence"

\* GeminiComparator._parse_response (for replies on which it does not raise)
ParseResponse(reply, func_name) ==
    IF reply.kind # "json"
    THEN [matches |-> FALSE, confidence |-> 0, issues |-> <<>>]
    ELSE [matches |-> reply.matches,
          confidence |-> reply.confidence,
          issues |-> [k \in 1..Len(reply.issues) |->
                         MkIssue(reply.issues[k].severity, func_name,
                                 reply.issues[k].issue, NoParam)]]

\* default of the max_retries argument of _call_gemini
MaxRetries == 3

\* 2 ** attempt
RECURSIVE Pow2(_)
Pow2(n) == IF n = 0 THEN 1 ELSE 2 * Pow2(n - 1)

(* ---------------------------------------------------------------------- *)
(* HybridComparator                                                        *)
(* ---------------------------------------------------------------------- *)
\* a plausible slip: the fast path opens at the medium threshold
EmbeddingThresholdHigh_AsMedium == Rat(60, 100)
EmbeddingThresholdHigh == Rat(85, 100)
EmbeddingThresholdMedium == Rat(60, 100)
EmbeddingThresholdVeryLow == Rat(2, 10)
NameThreshold == Rat(3, 10)

\* HybridComparator._compute_name_similarity
ComputeNameSimilarity(name1, name2) ==
    LET name1_lower == Lower(name1)
        name2_lower == Lower(name2)
        words1 == SplitWords(ReplaceChar(name1_lower, "_", " "))
        words2 == SplitWords(ReplaceChar(name2_lower, "_", " "))
        chars1 == CharSet(name1_lower)
        chars2 == CharSet(name2_lower)
    IN IF name1_lower = name2_lower THEN Rat(1, 1)
       ELSE IF words1 # {} /\ words2 # {} /\ RGt(Jaccard(words1, words2), Rat(3, 10))
       THEN Jaccard(words1, words2)
       ELSE IF Len(name1_lower) = 0 \/ Len(name2_lower) = 0 THEN Rat(0, 1)
       ELSE Jaccard(chars1, chars2)

\* {p.name.lower() for p in parameters}
ParamNameSet(params) == {Lower(params[i].name) : i \in 1..Len(params)}

\* a plausible slip: only the parameter counts are compared
HasParameterMismatch_CountOnly(code_func, doc_func) ==
    Len(code_func.parameters) # Len(doc_func.parameters)

\* HybridComparator._has_parameter_mismatch
HasParameterMismatch(code_func, doc_func) ==
    \/ ParamNameSet(code_func.parameters) # ParamNameSet(doc_func.parameters)
    \/ Len(code_func.parameters) # Len(doc_func.parameters)

\* {p.name.lower(): p for p in parameters}[key]: the LAST parameter with that key
ParamDictGet(params, key) ==
    params[CHOOSE i \in 1..Len(params) :
              /\ Lower(params[i].name) = key
              /\ \A j \in 1..Len(params) : Lower(params[j].name) = key => j <= i]

\* the keys of that dict in insertion order, which of them are not keys of other
RECURSIVE MissingKeys(_, _, _)
MissingKeys(params, other, i) ==
    IF i > Len(params) THEN <<>>
    ELSE LET key == Lower(params[i].name)
             first == \A j \in 1..(i - 1) : Lower(params[j].name) # key
         IN IF first /\ key \notin ParamNameSet(other)
            THEN <<key>> \o MissingKeys(params, other, i + 1)
            ELSE MissingKeys(params, other, i + 1)

\* HybridComparator._quick_issue_check
QuickIssueCheck(code_func, doc_func) ==
    LET missing == MissingKeys(code_func.parameters, doc_func.parameters, 1)
        phantom == MissingKeys(doc_func.parameters, code_func.parameters, 1)
    IN [k \in 1..Len(missing) |->
           LET param == ParamDictGet(code_func.parameters, missing[k])
           IN MkIssue(IF param.default = "" THEN "high" ELSE "medium",
                      code_func.name,
                      "parameter is missing from documentation",
                      param.name)]
       \o
       [k \in 1..Len(phantom) |->
           MkIssue("high", code_func.name,
                   "Parameter is documented but does not exist in code",
                   ParamDictGet(doc_func.parameters, phantom[k]).name)]

\* a plausible slip: the test of the name similarity is missing
Strategy_WithoutNameTest(code_func, doc_func, similarity) ==
    LET embedding_score == similarity.score
    IN IF RLt(embedding_score, EmbeddingThresholdVeryLow)
       THEN "embedding_only_very_low"
       ELSE IF RGe(embedding_score, EmbeddingThresholdHigh)
               /\ ~HasParameterMismatch(code_func, doc_func)
       THEN "embedding_only"
       ELSE IF RGe(embedding_score, EmbeddingThresholdMedium)
       THEN "hybrid"
       ELSE "llm_focused"

\* the strategy chosen by HybridComparator.compare
Strategy(code_func, doc_func, similarity) ==
    LET embedding_score == similarity.score
        name_similarity == ComputeNameSimilarity(code_func.name, doc_func.name)
    IN IF RLt(embedding_score, EmbeddingThresholdVeryLow)
          \/ RLt(name_similarity, NameThreshold)
       THEN "embedding_only_very_low"
       ELSE IF RGe(embedding_score, EmbeddingThresholdHigh)
               /\ ~HasParameterMismatch(code_func, doc_func)
       THEN "embedding_only"
       ELSE IF RGe(embedding_score, EmbeddingThresholdMedium)
       THEN "hybrid"
       ELSE "llm_focused"

\* HybridComparator._embedding_only_very_low
EmbeddingOnlyVeryLow(code_func, doc_func, similarity) ==
    [matches |-> FALSE,
     confidence |-> ToPercent(similarity.score),
     issues |-> << MkIssue("high", code_func.name,
                           "Functions are completely different", NoParam) >>,
     embedding_score |-> similarity.score,
     llm_confidence |-> 0,
     method |-> "embedding_only_very_low"]

\* HybridComparator._embedding_only_result
EmbeddingOnlyResult(code_func, doc_func, similarity) ==
    [matches |-> ToPercent(similarity.score) >= 80,
     confidence |-> ToPercent(similarity.score),
     issues |-> QuickIssueCheck(code_func, doc_func),
     embedding_score |-> similarity.score,
     llm_confidence |-> ToPercent(similarity.score),
     method |-> "embedding_only"]

\* HybridComparator._hybrid_comparison, given the engine's result
HybridComparison(similarity, llm_result) ==
    LET embedding_confidence == ToPercent(similarity.score)
        combined_confidence ==
            TruncDiv(4 * embedding_confidence + 6 * llm_result.confidence, 10)
    IN [matches |-> combined_confidence >= 80,
        confidence |-> combined_confidence,
        issues |-> llm_result.issues,
        embedding_score |-> similarity.score,
        llm_confidence |-> llm_result.confidence,
        method |-> "hybrid"]

\* HybridComparator._llm_focused_comparison, given the engine's result
LlmFocusedComparison(similarity, llm_result) ==
    LET embedding_confidence == ToPercent(similarity.score)
        combined_confidence ==
            IF RLt(similarity.score, Rat(3, 10)) /\ llm_result.confidence > 80
            THEN TruncDiv(9 * llm_result.confidence, 10)
            ELSE TruncDiv(2 * embedding_confidence + 8 * llm_result.confidence, 10)
    IN [matches |-> combined_confidence >= 80,
        confidence |-> combined_confidence,
        issues |-> llm_result.issues,
        embedding_score |-> similarity.score,
        llm_confidence |-> llm_result.confidence,
        method |-> "llm_focused"]

(* ---------------------------------------------------------------------- *)
(* The signatures the model draws its inputs from                          *)
(* ---------------------------------------------------------------------- *)
Param(name, type, default) == [name |-> name, type |-> type, default |-> default]
Sig(name, parameters, return_type, docstring) ==
    [name |-> name, parameters |-> parameters,
     return_type |-> return_type, docstring |-> docstring]

P_price == Param(<<"p","r","i","c","e">>, "float", "")
P_qty == Param(<<"q","t","y">>, "int", "1")
P_tax == Param(<<"T","a","x">>, "int", "")
P_path == Param(<<"p","a","t","h">>, "", "")
D_sum == <<"S","u","m"," ","i","t">>
D_none == <<>>

\* total(price: float, qty: int = 1) -> float, documented
S_total == Sig(<<"t","o","t","a","l">>, <<P_price, P_qty>>, "float", D_sum)
\* Total(price: float, Tax: int) -> float, documented
S_total_tax == Sig(<<"T","o","t","a","l">>, <<P_price, P_tax>>, "float", D_sum)
\* ping(), no return type, no documentation text
S_ping == Sig(<<"p","i","n","g">>, <<>>, "", D_none)
\* load(path) -> str, untyped parameter, documented
S_load == Sig(<<"l","o","a","d">>, <<P_path>>, "str", D_sum)
\* eeeeab / eeeecd: names close in edit distance that share few characters
S_eeeeab == Sig(<<"e","e","e","e","a","b">>, <<P_price, P_qty>>, "float", D_sum)
S_eeeecd == Sig(<<"e","e","e","e","c","d">>, <<P_price, P_qty>>, "float", D_sum)

CodeSigs == {S_total, S_ping, S_load, S_eeeeab}
DocSigs == {S_total, S_total_tax, S_ping, S_load, S_eeeecd}

\* all sequences over S of length at most n
SeqsUpTo(S, n) == UNION {[1..k -> S] : k \in 0..n}

(* ---------------------------------------------------------------------- *)
(* State of one run of scorer.analyze_repository(code_functions,           *)
(* doc_functions) with use_hybrid at its default True                      *)
(* ---------------------------------------------------------------------- *)
VARIABLES
    code_functions,     \* argument: sequence of code signatures
    doc_functions,      \* argument: sequence of documentation signatures
    encoder,            \* behaviour of SemanticMatcher.encoder
    api_key,            \* TRUE iff settings.GEMINI_API_KEY is set
    pc,                 \* "start", "loop", "engine", "done", "aborted"
    matches,            \* result of match_functions
    idx,                \* position of the next pair in matches
    all_issues,         \* analyze_repository: all_issues
    verified,           \* analyze_repository: verified
    confidence_scores,  \* analyze_repository: confidence_scores
    total_confidence,   \* analyze_repository: total_confidence
    methods_used,       \* analyze_repository: methods_used
    similarity,         \* compare: the SimilarityScore of the pair being compared
    strategy,           \* compare: the branch taken for the pair being compared
    result,             \* the last HybridComparisonResult returned by compare
    report,             \* the dict returned by analyze_repository
    error,              \* the exception that left analyze_repository, "" if none
    attempt,            \* _call_gemini: loop variable
    requests,           \* _call_gemini: requests.post calls of the current call
    sleeps,             \* _call_gemini: time.sleep arguments of the current call
    similarity_calls,   \* number of compute_similarity invocations of this call
    engine_calls,       \* number of GeminiComparator.compare invocations of this call
    run,                \* 1 during the first call of analyze_repository, 2 in the second
    first_report,       \* the dict the first call returned
    service_log         \* <<pair index, reply>> for each reply the service gave in run 1

\* parser_factory.parse_code
VARIABLES
    filename,           \* argument: the file name, a sequence of characters
    code,               \* argument: the text, a sequence of characters
    extractor,          \* what the language extractor does with the text
    parse_pc,           \* "idle", "call", "returned", "raised"
    parsed              \* the list parse_code returned

parse_vars == <<filename, code, extractor, parse_pc, parsed>>

\* parse_code is not running
ParseIdle ==
    /\ filename = <<>>
    /\ code = <<>>
    /\ extractor = "returns"
    /\ parse_pc = "idle"
    /\ parsed = <<>>

\* SemanticMatcher._name_similarity called on a pair of names, in both orders
VARIABLES
    name1,              \* a function name
    name2,              \* a function name
    name_pc,            \* "idle", "call", "returned"
    score12,            \* _name_similarity(name1, name2)
    score21             \* _name_similarity(name2, name1)

name_vars == <<name1, name2, name_pc, score12, score21>>

\* _name_similarity is not running
NameIdle ==
    /\ name1 = <<>>
    /\ name2 = <<>>
    /\ name_pc = "idle"
    /\ score12 = <<0, 1>>
    /\ score21 = <<0, 1>>

\* scorer.match_functions called on its own
VARIABLES
    use_semantic_matching   \* argument of match_functions

match_vars == <<use_semantic_matching>>

\* match_functions is only called by analyze_repository, which passes True
MatchIdle == use_semantic_matching = TRUE

\* javascript_parser.parse_javascript
VARIABLES
    js_decls,           \* the source: its top-level declarations and statements
    js_pc,              \* "idle", "call", "returned"
    js_functions        \* the list parse_javascript returned

js_vars == <<js_decls, js_pc, js_functions>>

\* parse_javascript is not running
JsIdle ==
    /\ js_decls = <<>>
    /\ js_pc = "idle"
    /\ js_functions = <<>>

\* python_parser.parse_python
VARIABLES
    py_tree,            \* ast.parse(code): whether it parses, and the module body
    py_path,            \* argument file_path, a sequence of characters
    py_pc,              \* "idle", "call", "returned"
    py_functions        \* the list parse_python returned

py_vars == <<py_tree, py_path, py_pc, py_functions>>

\* parse_python is not running
PyIdle ==
    /\ py_tree = [ok |-> TRUE, body |-> <<>>]
    /\ py_path = <<>>
    /\ py_pc = "idle"
    /\ py_functions = <<>>

\* the engine-consulting branches of HybridComparator.compare, applied to two
\* overall similarities and one engine confidence
VARIABLES
    cmb_low,            \* the lower overall similarity
    cmb_high,           \* the higher overall similarity
    cmb_llm,            \* llm_result.confidence
    cmb_pc,             \* "idle", "call", "returned"
    cmb_conf_low,       \* the combined confidence for cmb_low
    cmb_conf_high       \* the combined confidence for cmb_high

cmb_vars == <<cmb_low, cmb_high, cmb_llm, cmb_pc, cmb_conf_low, cmb_conf_high>>

\* the branches are not being applied
CmbIdle ==
    /\ cmb_low = <<0, 1>>
    /\ cmb_high = <<0, 1>>
    /\ cmb_llm = 0
    /\ cmb_pc = "idle"
    /\ cmb_conf_low = 0
    /\ cmb_conf_high = 0

\* markdown_parser.parse_markdown(code, filename)
VARIABLES
    md_lines,           \* code.split('\n'), each line by what the heading pattern makes of it
    md_filename,        \* argument filename, a sequence of characters
    md_pc,              \* "idle", "call", "returned"
    md_functions        \* the list parse_markdown returned

md_vars == <<md_lines, md_filename, md_pc, md_functions>>

\* parse_markdown is not running
MdIdle ==
    /\ md_lines = <<>>
    /\ md_filename = <<>>
    /\ md_pc = "idle"
    /\ md_functions = <<>>


\* the variables of the entry points other than analyze_repository
outside == <<parse_vars, name_vars, match_vars, js_vars, py_vars, cmb_vars, md_vars>>

analyze_vars == <<code_functions, doc_functions, encoder, api_key, pc, matches, idx,
          all_issues, verified, confidence_scores, total_confidence, methods_used,
          similarity, strategy, result, report, error, attempt, requests, sleeps,
          similarity_calls, engine_calls, run, first_report, service_log>>

vars == <<analyze_vars, outside>>

session == <<run, first_report, service_log>>
inputs == <<code_functions, doc_functions, encoder, api_key>>
accumulators == <<all_issues, verified, confidence_scores, total_confidence, methods_used>>
call_state == <<attempt, requests, sleeps>>
compare_state == <<similarity, strategy>>

NoSimilarity == [score |-> Rat(0, 1), method |-> "none", confidence |-> Rat(0, 1)]

NoResult ==
    [matches |-> FALSE, confidence |-> 0, issues |-> <<>>,
     embedding_score |-> Rat(0, 1), llm_confidence |-> 0, method |-> "none"]

NoReport ==
    [trust_score |-> 0, total_functions |-> 0, verified |-> 0,
     issues |-> <<>>, method_stats |-> <<>>]

\* analyze_repository has been called and has not executed anything yet
AnalyzeStart ==
    /\ pc = "start"
    /\ matches = <<>>
    /\ idx = 1
    /\ all_issues = <<>>
    /\ verified = 0
    /\ confidence_scores = <<>>
    /\ total_confidence = 0
    /\ methods_used = <<>>
    /\ similarity = NoSimilarity
    /\ strategy = "none"
    /\ result = NoResult
    /\ report = NoReport
    /\ error = ""
    /\ attempt = 0
    /\ requests = 0
    /\ sleeps = <<>>
    /\ similarity_calls = 0
    /\ engine_calls = 0
    /\ run = 1
    /\ first_report = NoReport
    /\ service_log = <<>>

\* analyze_repository is not used: no functions, no encoder, no credential
AnalyzeIdle ==
    /\ code_functions = <<>>
    /\ doc_functions = <<>>
    /\ encoder = "none"
    /\ api_key = FALSE
    /\ AnalyzeStart

Init ==
    /\ code_functions \in SeqsUpTo(CodeSigs, MaxCode)
    /\ doc_functions \in SeqsUpTo(DocSigs, MaxDoc)
    /\ encoder \in EncoderKinds
    /\ api_key \in BOOLEAN
    /\ AnalyzeStart
    /\ ParseIdle
    /\ NameIdle
    /\ MatchIdle
    /\ JsIdle
    /\ PyIdle
    /\ CmbIdle
    /\ MdIdle

\* the two sides of the pair the loop is at
CodeOf(pair) == code_functions[pair[1]]
DocOf(pair) == doc_functions[pair[2]]
AtPair == pc = "loop" /\ idx <= Len(matches)
IsDocOnly(pair) == pair[1] = 0
IsCodeOnly(pair) == pair[1] # 0 /\ pair[2] = 0
IsMatched(pair) == pair[1] # 0 /\ pair[2] # 0

\* analyze_repository up to the loop: match_functions and the empty accumulators
\* a plausible slip: the issue list outlives the call (a module-level list)
NewIssueList_Shared == all_issues

\* "all_issues: List[Issue] = []", a fresh list in every call
NewIssueList == <<>>

Analyze ==
    /\ pc = "start"
    /\ \E m \in {MatchFunctions(code_functions, doc_functions, TRUE, encoder)} :
          /\ matches' = m.matches
          /\ similarity_calls' = m.sim_calls
    /\ pc' = "loop"
    /\ idx' = 1
    /\ all_issues' = NewIssueList
    /\ verified' = 0
    /\ confidence_scores' = <<>>
    /\ total_confidence' = 0
    /\ methods_used' = <<>>
    /\ UNCHANGED <<outside, inputs, compare_state, result, report, error, call_state,
                   engine_calls, session>>

\* a plausible slip: the doc-only issue gets the severity of the code-only one
DocOnlyIssue_LowSeverity(doc_func) ==
    MkIssue("low", doc_func.name, "Documented function not found in code", NoParam)

\* the Issue built for a doc-only pair
DocOnlyIssue(doc_func) ==
    MkIssue("medium", doc_func.name, "Documented function not found in code", NoParam)

\* the Issue built for a code-only pair
CodeOnlyIssue(code_func) ==
    MkIssue("low", code_func.name, "Function exists in code but is not documented",
            NoParam)

\* loop body, "if code_func is None"
ProcessDocOnly ==
    /\ AtPair
    /\ IsDocOnly(matches[idx])
    /\ all_issues' = Append(all_issues, DocOnlyIssue(DocOf(matches[idx])))
    /\ confidence_scores' = Append(confidence_scores, 0)
    /\ methods_used' = Append(methods_used, "unmatched")
    /\ idx' = idx + 1
    /\ UNCHANGED <<outside, inputs, pc, matches, verified, total_confidence, compare_state,
                   result, report, error, call_state, similarity_calls, engine_calls,
                   session>>

\* loop body, "elif doc_func is None"
ProcessCodeOnly ==
    /\ AtPair
    /\ IsCodeOnly(matches[idx])
    /\ all_issues' = Append(all_issues, CodeOnlyIssue(CodeOf(matches[idx])))
    /\ confidence_scores' = Append(confidence_scores, 0)
    /\ methods_used' = Append(methods_used, "unmatched")
    /\ idx' = idx + 1
    /\ UNCHANGED <<outside, inputs, pc, matches, verified, total_confidence, compare_state,
                   result, report, error, call_state, similarity_calls, engine_calls,
                   session>>

\* loop body after comparator.compare returned r: the verified / issues bookkeeping
Aggregate(r) ==
    /\ result' = r
    /\ methods_used' = Append(methods_used, r.method)
    /\ verified' = IF r.confidence >= 80 THEN verified + 1 ELSE verified
    /\ all_issues' = IF r.confidence >= 80 THEN all_issues ELSE all_issues \o r.issues
    /\ confidence_scores' = Append(confidence_scores, r.confidence)
    /\ total_confidence' = total_confidence + r.confidence
    /\ idx' = idx + 1

\* loop body, matched pair: HybridComparator.compare up to its branch.  The two
\* embedding-only branches return at once and the loop body completes; the other
\* two enter llm_comparator.compare, that is _call_gemini.
Compare ==
    /\ AtPair
    /\ IsMatched(matches[idx])
    /\ \E sim \in {ComputeSimilarity(CodeOf(matches[idx]), DocOf(matches[idx]), encoder)} :
       \E branch \in {Strategy(CodeOf(matches[idx]), DocOf(matches[idx]), sim)} :
          IF branch \in {"embedding_only_very_low", "embedding_only"}
          THEN /\ Aggregate(IF branch = "embedding_only_very_low"
                            THEN EmbeddingOnlyVeryLow(CodeOf(matches[idx]),
                                                      DocOf(matches[idx]), sim)
                            ELSE EmbeddingOnlyResult(CodeOf(matches[idx]),
                                                     DocOf(matches[idx]), sim))
               /\ UNCHANGED <<pc, compare_state, call_state, engine_calls>>
          ELSE /\ pc' = "engine"
               /\ similarity' = sim
               /\ strategy' = branch
               /\ attempt' = 0
               /\ requests' = 0
               /\ sleeps' = <<>>
               /\ engine_calls' = engine_calls + 1
               /\ UNCHANGED <<idx, accumulators, result>>
    /\ similarity_calls' = similarity_calls + 1
    /\ UNCHANGED <<outside, inputs, matches, report, error, session>>

\* an exception leaves _call_gemini and, uncaught, analyze_repository
Raise(kind) ==
    /\ pc' = "aborted"
    /\ error' = kind

InCall == pc = "engine"

\* a plausible slip: the credential check before the retry loop is missing
Posting_WithoutKeyCheck == InCall /\ attempt < MaxRetries

\* _call_gemini is inside its retry loop, about to post a request
Posting == InCall /\ api_key /\ attempt < MaxRetries

\* the request fails.  The service may fail a request of the first call only: in
\* the second call it answers every request as it finally answered it in the first
Failing == Posting /\ run = 1

\* _call_gemini: "if not self.api_key: raise RuntimeError"
EngineMissingKey ==
    /\ InCall
    /\ ~api_key
    /\ Raise("config")
    /\ UNCHANGED <<outside, inputs, matches, idx, accumulators, compare_state, result, report,
                   call_state, similarity_calls, engine_calls, session>>

\* what the service may answer to the request for pair idx: anything in the first
\* call; in the second call the service, being deterministic, answers the same
\* request as it did in the first
ServiceReplies ==
    IF run = 1 THEN Replies
    ELSE {service_log[k][2] : k \in {j \in 1..Len(service_log) : service_log[j][1] = idx}}

\* _call_gemini: the request succeeds; _parse_response; the hybrid combination
\* and the rest of the loop body
EngineReply ==
    /\ Posting
    /\ \E reply \in ServiceReplies :
        IF ParseRaises(reply)
        THEN /\ Raise("parse")
             /\ requests' = requests + 1
             /\ UNCHANGED <<idx, accumulators, compare_state, result, attempt, sleeps,
                            service_log>>
        ELSE /\ service_log' = IF run = 1 THEN Append(service_log, <<idx, reply>>)
                                ELSE service_log
             /\ Aggregate(
                  IF strategy = "hybrid"
                  THEN HybridComparison(similarity,
                           ParseResponse(reply, CodeOf(matches[idx]).name))
                  ELSE LlmFocusedComparison(similarity,
                           ParseResponse(reply, CodeOf(matches[idx]).name)))
             /\ pc' = "loop"
             /\ similarity' = NoSimilarity
             /\ strategy' = "none"
             /\ attempt' = 0
             /\ requests' = 0
             /\ sleeps' = <<>>
             /\ UNCHANGED error
    /\ UNCHANGED <<outside, inputs, matches, report, similarity_calls, engine_calls, run,
                   first_report>>

\* a plausible slip: the handler backs off after the last attempt too
RetryOrRaise_SleepsOnLast(kind) ==
    /\ sleeps' = Append(sleeps, Pow2(attempt))
    /\ attempt' = attempt + 1
    /\ UNCHANGED <<pc, error>>

\* a plausible slip: the bound of the last attempt is off by one
RetryOrRaise_OneMore(kind) ==
    IF attempt < MaxRetries
    THEN /\ sleeps' = Append(sleeps, Pow2(attempt))
         /\ attempt' = attempt + 1
         /\ UNCHANGED <<pc, error>>
    ELSE /\ Raise(kind)
         /\ UNCHANGED <<attempt, sleeps>>

\* the retry arm shared by the 429 handler and the generic handler
RetryOrRaise(kind) ==
    IF attempt < MaxRetries - 1
    THEN /\ sleeps' = Append(sleeps, Pow2(attempt))
         /\ attempt' = attempt + 1
         /\ UNCHANGED <<pc, error>>
    ELSE /\ Raise(kind)
         /\ UNCHANGED <<attempt, sleeps>>

\* _call_gemini: HTTPError with status 429
EngineRateLimited ==
    /\ Failing
    /\ requests' = requests + 1
    /\ RetryOrRaise("rate_limit")
    /\ UNCHANGED <<outside, inputs, matches, idx, accumulators, compare_state, result, report,
                   similarity_calls, engine_calls, session>>

\* a plausible slip: every HTTPError takes the retry arm, whatever its status
EngineHttpError_Retried ==
    /\ Failing
    /\ requests' = requests + 1
    /\ RetryOrRaise("http_error")
    /\ UNCHANGED <<outside, inputs, matches, idx, accumulators, compare_state, result, report,
                   similarity_calls, engine_calls, session>>

\* _call_gemini: HTTPError with another status
EngineHttpError ==
    /\ Failing
    /\ requests' = requests + 1
    /\ Raise("http_error")
    /\ UNCHANGED <<outside, inputs, matches, idx, accumulators, compare_state, result, report,
                   attempt, sleeps, similarity_calls, engine_calls, session>>

\* a plausible slip: the generic handler re-raises at once
EngineOtherError_NotRetried ==
    /\ Failing
    /\ requests' = requests + 1
    /\ Raise("transient")
    /\ UNCHANGED <<outside, inputs, matches, idx, accumulators, compare_state, result, report,
                   attempt, sleeps, similarity_calls, engine_calls, session>>

\* _call_gemini: any other exception (timeout, connection error)
EngineOtherError ==
    /\ Failing
    /\ requests' = requests + 1
    /\ RetryOrRaise("transient")
    /\ UNCHANGED <<outside, inputs, matches, idx, accumulators, compare_state, result, report,
                   similarity_calls, engine_calls, session>>

\* method_stats: how often each method occurs in methods_used
MethodStats(methods) ==
    [m \in {methods[i] : i \in 1..Len(methods)} |->
        Cardinality({i \in 1..Len(methods) : methods[i] = m})]

\* a plausible slip: the average of no pairs taken as 0
TrustScore_ZeroWithoutPairs(total_conf, total) ==
    IF total > 0 THEN TruncDiv(total_conf, total) ELSE 0

\* a plausible slip: round() to the nearest integer instead of int()
TrustScore_Rounded(total_conf, total) ==
    IF total > 0 THEN (2 * total_conf + total) \div (2 * total) ELSE 100

\* trust_score: int(total_confidence / total), 100 without pairs
TrustScore(total_conf, total) ==
    IF total > 0 THEN TruncDiv(total_conf, total) ELSE 100

\* analyze_repository after the loop
Finish ==
    /\ pc = "loop"
    /\ idx > Len(matches)
    /\ report' = [trust_score |-> TrustScore(total_confidence, Len(matches)),
                  total_functions |-> Len(matches),
                  verified |-> verified,
                  issues |-> all_issues,
                  method_stats |-> MethodStats(methods_used)]
    /\ pc' = "done"
    /\ UNCHANGED <<outside, inputs, matches, idx, accumulators, compare_state, result, error,
                   call_state, similarity_calls, engine_calls, session>>

\* analyze_repository has returned and the caller calls it again on the same
\* inputs: nothing of the finished call is passed to the new one
AnalyzeAgain ==
    /\ pc = "done"
    /\ run = 1
    /\ run' = 2
    /\ first_report' = report
    /\ pc' = "start"
    /\ report' = NoReport
    /\ result' = NoResult
    /\ similarity_calls' = 0
    /\ engine_calls' = 0
    /\ UNCHANGED <<outside, inputs, matches, idx, accumulators, compare_state, error,
                   call_state, service_log>>

Next ==
    \/ Analyze
    \/ ProcessDocOnly
    \/ ProcessCodeOnly
    \/ Compare
    \/ EngineMissingKey
    \/ EngineReply
    \/ EngineRateLimited
    \/ EngineHttpError
    \/ EngineOtherError
    \/ Finish

Spec == Init /\ [][Next]_vars

\* a step of _call_gemini
CallStep ==
    \/ EngineMissingKey
    \/ EngineReply
    \/ EngineRateLimited
    \/ EngineHttpError
    \/ EngineOtherError

(* The same run under the assumption that a remote call in progress keeps   *)
(* executing: requests.post is given a timeout, so it returns or raises, and *)
(* time.sleep returns.  The call is the same for every pair, so the inputs   *)
(* are the shorter ones.                                                     *)
\* most code functions and most documented functions in these runs
MaxLiveFunctions == 1
InitLive ==
    /\ Init
    /\ Len(code_functions) <= MaxLiveFunctions
    /\ Len(doc_functions) <= MaxLiveFunctions
SpecLive == InitLive /\ [][Next]_vars /\ WF_vars(CallStep)

(* Two successive calls of analyze_repository on the same inputs, with an        *)
(* encoder that loads and answers, so that both calls go through the semantic    *)
(* matcher and the remote engine.                                                *)
TwiceEncoders == {"opposite"}
InitTwice == Init /\ encoder \in TwiceEncoders
NextTwice == Next \/ AnalyzeAgain
SpecTwice == InitTwice /\ [][NextTwice]_vars

(* ---------------------------------------------------------------------- *)
(* parser_factory.parse_code: the extractor dispatcher                     *)
(* ---------------------------------------------------------------------- *)
\* longest text drawn for parse_code
MaxTextLen == 2

\* characters that str.strip() removes, among those the texts are drawn from
Whitespace == {" ", "\n"}
TextChars == {" ", "\n", "x"}

\* "not code or not code.strip()"
IsBlank(text) == \A i \in 1..Len(text) : text[i] \in Whitespace

\* str.endswith
EndsWith(str, suffix) ==
    /\ Len(str) >= Len(suffix)
    /\ SubSeq(str, Len(str) - Len(suffix) + 1, Len(str)) = suffix

\* the suffixes parse_code tests, in its order, with the extractor each routes to
Routes ==
    << <<"java", <<".","j","a","v","a">> >>,
       <<"markdown", <<".","m","d">> >>,
       <<"markdown", <<".","m","a","r","k","d","o","w","n">> >>,
       <<"json", <<".","j","s","o","n">> >>,
       <<"python", <<".","p","y">> >>,
       <<"javascript", <<".","j","s">> >>,
       <<"javascript", <<".","j","s","x">> >>,
       <<"typescript", <<".","t","s">> >>,
       <<"typescript", <<".","t","s","x">> >> >>

\* the if/elif chain of parse_code on filename.lower(); "" for the final else
RECURSIVE RouteFrom(_, _)
RouteFrom(filename_lower, k) ==
    IF k > Len(Routes) THEN ""
    ELSE IF EndsWith(filename_lower, Routes[k][2]) THEN Routes[k][1]
    ELSE RouteFrom(filename_lower, k + 1)

Route(name) == RouteFrom(Lower(name), 1)

\* what a language extractor can do with a text: return a list, or raise
\* SyntaxError, another Exception, or ImportError from the import in the wrapper
ExtractorOutcomes == {"returns", "syntax_error", "exception", "import_error"}

\* the list the extractor returns when it returns
Extracted(text) == <<S_ping>>

\* a plausible slip: the wrappers catch syntax errors only
Caught_SyntaxErrorOnly(outcome) == outcome = "syntax_error"

\* "except Exception" of the _parse_<language> wrappers
Caught(outcome) == outcome \in {"syntax_error", "exception", "import_error"}

\* file names drawn for parse_code
FileNames ==
    { <<>>, <<"p","y">>, <<".","p","y">>, <<"a",".","P","Y">>, <<"a",".","g","o">>,
      <<"a",".","p","y",".","t","x","t">> }
    \cup {<<"a">> \o Routes[k][2] : k \in 1..Len(Routes)}

InitParse ==
    /\ AnalyzeIdle
    /\ NameIdle
    /\ MatchIdle
    /\ JsIdle
    /\ PyIdle
    /\ CmbIdle
    /\ MdIdle
    /\ filename \in FileNames
    /\ code \in SeqsUpTo(TextChars, MaxTextLen)
    /\ extractor \in ExtractorOutcomes
    /\ parse_pc = "call"
    /\ parsed = <<>>

\* parse_code(filename, code), with the _parse_<language> wrapper it routes to
ParseCode ==
    /\ parse_pc = "call"
    /\ IF code = <<>> \/ IsBlank(code) \/ Route(filename) = ""
       THEN parse_pc' = "returned" /\ parsed' = <<>>
       ELSE IF extractor = "returns"
       THEN parse_pc' = "returned" /\ parsed' = Extracted(code)
       ELSE IF Caught(extractor)
       THEN parse_pc' = "returned" /\ parsed' = <<>>
       ELSE parse_pc' = "raised" /\ parsed' = parsed
    /\ UNCHANGED <<analyze_vars, name_vars, match_vars, js_vars, py_vars, cmb_vars, md_vars,
                   filename, code, extractor>>

NextParse == ParseCode

SpecParse == InitParse /\ [][NextParse]_vars

(* ---------------------------------------------------------------------- *)
(* SemanticMatcher._name_similarity on pairs of names                      *)
(* ---------------------------------------------------------------------- *)
\* names drawn: equal up to case, equal after normalisation, sharing most, half
\* or a third of their words, sharing none, and the empty name
NamePool ==
    { <<>>,
      <<"t","o","t","a","l">>,
      <<"T","o","t","a","l">>,
      <<"g","e","t","T","o","t","a","l">>,
      <<"g","e","t","_","t","o","t","a","l">>,
      <<"g","e","t","_","t","o","t","a","l","_","x">>,
      <<"g","e","t","_","s","u","m">>,
      <<"g","e","t","_","a","_","b","_","c">>,
      <<"g","e","t","_","a","_","b","_","c","_","d">>,
      <<"p","i","n","g">>,
      <<"e","e","e","e","a","b">>,
      <<"e","e","e","e","c","d">> }

InitName ==
    /\ AnalyzeIdle
    /\ ParseIdle
    /\ MatchIdle
    /\ JsIdle
    /\ PyIdle
    /\ CmbIdle
    /\ MdIdle
    /\ name1 \in NamePool
    /\ name2 \in NamePool
    /\ name_pc = "call"
    /\ score12 = <<0, 1>>
    /\ score21 = <<0, 1>>

\* the two calls _name_similarity(name1, name2) and _name_similarity(name2, name1)
CompareNames ==
    /\ name_pc = "call"
    /\ score12' = NameSimilarity(name1, name2)
    /\ score21' = NameSimilarity(name2, name1)
    /\ name_pc' = "returned"
    /\ UNCHANGED <<analyze_vars, parse_vars, match_vars, js_vars, py_vars, cmb_vars, md_vars,
                   name1, name2>>

NextName == CompareNames

SpecName == InitName /\ [][NextName]_vars

(* ---------------------------------------------------------------------- *)
(* scorer.match_functions called on its own, in either mode                *)
(* ---------------------------------------------------------------------- *)
InitMatch ==
    /\ code_functions \in SeqsUpTo(CodeSigs, MaxCode)
    /\ doc_functions \in SeqsUpTo(DocSigs, MaxDoc)
    /\ encoder \in EncoderKinds
    /\ api_key = FALSE
    /\ AnalyzeStart
    /\ use_semantic_matching \in BOOLEAN
    /\ ParseIdle
    /\ NameIdle
    /\ JsIdle
    /\ PyIdle
    /\ CmbIdle
    /\ MdIdle

\* match_functions(code_functions, doc_functions, use_semantic_matching)
MatchCall ==
    /\ pc = "start"
    /\ \E m \in {MatchFunctions(code_functions, doc_functions, use_semantic_matching,
                                 encoder)} :
          /\ matches' = m.matches
          /\ similarity_calls' = m.sim_calls
    /\ pc' = "matched"
    /\ UNCHANGED <<outside, inputs, idx, accumulators, compare_state, result, report,
                   error, call_state, engine_calls, session>>

NextMatch == MatchCall

SpecMatch == InitMatch /\ [][NextMatch]_vars

(* ---------------------------------------------------------------------- *)
(* javascript_parser.parse_javascript                                      *)
(* The source text is a sequence of tokens: words (identifiers and          *)
(* keywords, what \w+ matches), "()" for a parenthesised parameter list,    *)
(* and the punctuation "{", "}", "=", "=>".  White space between tokens is  *)
(* what the \s* of the patterns skips.  Parameter lists and return-type     *)
(* annotations are not drawn.                                               *)
(* ---------------------------------------------------------------------- *)
\* most declarations in a drawn source
MaxDecls == 2

JsPunct == {"()", "{", "}", "=", "=>"}
JsWord(tok) == tok \notin JsPunct

\* the text of one declaration or statement
JsText(decl) ==
    CASE decl.kind = "function" -> <<"function", decl.name, "()", "{", "}">>
      [] decl.kind = "arrow" -> <<"const", decl.name, "=", "()", "=>", "{", "}">>
      [] decl.kind = "async_arrow" ->
             <<"const", decl.name, "=", "async", "()", "=>", "{", "}">>
      [] decl.kind = "method" -> <<decl.name, "()", "{", "}">>
      [] OTHER -> <<"if", "()", "{", "}">>

\* the text of a source
RECURSIVE JsSource(_)
JsSource(decls) ==
    IF decls = <<>> THEN <<>> ELSE JsText(Head(decls)) \o JsSource(Tail(decls))

At(t, i) == IF i <= Len(t) THEN t[i] ELSE ""

\* the number of tokens the rule's pattern matches at position i, 0 if it does not:
\*   func_pattern    function\s+(\w+)\s*\((.*?)\) ... \s*\{
\*   arrow_pattern   (?:const|let|var)\s+(\w+)\s*=\s*\((.*?)\) ... \s*=>
\*   method_pattern  (?:public|private|protected)?\s*(?:async)?\s*(\w+)\s*\((.*?)\) ... \s*\{
MatchLen(rule, t, i) ==
    CASE rule = "function" ->
             IF /\ At(t, i) = "function" /\ JsWord(At(t, i + 1))
                /\ At(t, i + 2) = "()" /\ At(t, i + 3) = "{"
             THEN 4 ELSE 0
      [] rule = "arrow" ->
             IF /\ At(t, i) \in {"const", "let", "var"} /\ JsWord(At(t, i + 1))
                /\ At(t, i + 2) = "=" /\ At(t, i + 3) = "()" /\ At(t, i + 4) = "=>"
             THEN 5 ELSE 0
      [] OTHER ->
             IF /\ At(t, i) = "async" /\ JsWord(At(t, i + 1))
                /\ At(t, i + 2) = "()" /\ At(t, i + 3) = "{"
             THEN 4
             ELSE IF JsWord(At(t, i)) /\ At(t, i + 1) = "()" /\ At(t, i + 2) = "{"
             THEN 3 ELSE 0

\* match.group(1) of a match at position i
MatchName(rule, t, i) ==
    IF rule \in {"function", "arrow"} \/ MatchLen(rule, t, i) = 4
    THEN At(t, i + 1) ELSE At(t, i)

\* re.finditer: the matches of the rule from position i on, leftmost first,
\* not overlapping
RECURSIVE FindIter(_, _, _)
FindIter(rule, t, i) ==
    IF i > Len(t) THEN <<>>
    ELSE (IF MatchLen(rule, t, i) > 0
          THEN << [name |-> MatchName(rule, t, i), start |-> i] >>
          ELSE <<>>)
         \o FindIter(rule, t, i + (IF MatchLen(rule, t, i) > 0
                                   THEN MatchLen(rule, t, i) ELSE 1))

\* names the class-method loop skips
SkippedNames == {"if", "while", "for", "switch", "catch", "constructor"}

\* the signatures the class-method loop appends
MethodMatches(t) ==
    SelectSeq(FindIter("method", t, 1), LAMBDA m : m.name \notin SkippedNames)

\* parse_javascript: the three loops, each appending its matches
ParseJavascript(t) ==
    FindIter("function", t, 1) \o FindIter("arrow", t, 1) \o MethodMatches(t)

JsNames == {"f", "g"}
JsKinds == {"function", "arrow", "async_arrow", "method"}
JsDecls == [kind : JsKinds, name : JsNames] \cup {[kind |-> "if", name |-> "if"]}

InitJs ==
    /\ AnalyzeIdle
    /\ ParseIdle
    /\ NameIdle
    /\ MatchIdle
    /\ PyIdle
    /\ CmbIdle
    /\ MdIdle
    /\ js_decls \in SeqsUpTo(JsDecls, MaxDecls)
    /\ js_pc = "call"
    /\ js_functions = <<>>

\* parse_javascript(code, file_path)
ParseJs ==
    /\ js_pc = "call"
    /\ js_functions' = ParseJavascript(JsSource(js_decls))
    /\ js_pc' = "returned"
    /\ UNCHANGED <<analyze_vars, parse_vars, name_vars, match_vars, py_vars, cmb_vars, md_vars,
                   js_decls>>

NextJs == ParseJs

SpecJs == InitJs /\ [][NextJs]_vars

(* ---------------------------------------------------------------------- *)
(* python_parser.parse_python                                              *)
(* The source is given by what ast.parse makes of it: a SyntaxError, or the *)
(* module body, a sequence of nodes.  A node is a FunctionDef (def), an     *)
(* AsyncFunctionDef (async def, not a subclass of FunctionDef), a ClassDef  *)
(* with its own body, or another statement.                                 *)
(* ---------------------------------------------------------------------- *)
\* most nodes in a module body
MaxNodes == 2
\* most nodes in a class body
MaxMembers == 1

\* sub in s
Contains(s, sub) ==
    \E i \in 1..(Len(s) - Len(sub) + 1) : SubSeq(s, i, i + Len(sub) - 1) = sub

\* s.startswith(prefix)
StartsWith(s, prefix) ==
    Len(s) >= Len(prefix) /\ SubSeq(s, 1, Len(prefix)) = prefix

Str_test == <<"t", "e", "s", "t">>
Str_spec == <<"s", "p", "e", "c">>

\* 'test' in file_path.lower() and ('test' in file_path or 'spec' in file_path)
IsTestFile(file_path) ==
    /\ Contains(Lower(file_path), Str_test)
    /\ Contains(file_path, Str_test) \/ Contains(file_path, Str_spec)

\* name.startswith('test_') or 'test' in name.lower()
IsTestFunc(name) ==
    StartsWith(name, Str_test \o <<"_">>) \/ Contains(Lower(name), Str_test)

\* isinstance(node, ast.FunctionDef)
IsFunctionDef(node) == node.kind = "FunctionDef"

\* the signatures the loop body appends for the nodes of a body that are
\* function definitions
Extracted_Functions(body, file_path) ==
    SelectSeq(body, LAMBDA node :
        /\ IsFunctionDef(node)
        /\ ~(IsTestFile(file_path) /\ IsTestFunc(node.name)))

\* the loop over ast.iter_child_nodes(tree), from node i on
RECURSIVE ChildLoop(_, _, _)
ChildLoop(body, file_path, i) ==
    IF i > Len(body) THEN <<>>
    ELSE (IF IsFunctionDef(body[i])
          THEN Extracted_Functions(<<body[i]>>, file_path)
          ELSE IF body[i].kind = "ClassDef"
          THEN Extracted_Functions(body[i].body, file_path)
          ELSE <<>>)
         \o ChildLoop(body, file_path, i + 1)

\* parse_python; a signature is given by its name
ParsePython(tree, file_path) ==
    IF ~tree.ok THEN <<>>
    ELSE [k \in 1..Len(ChildLoop(tree.body, file_path, 1)) |->
             ChildLoop(tree.body, file_path, 1)[k].name]

PyNames == { <<"f">>, <<"g">>, Str_test \o <<"_", "f">> }
PyFunctionNodes ==
    [kind : {"FunctionDef", "AsyncFunctionDef"}, name : PyNames, body : {<<>>}]
PyNodes ==
    PyFunctionNodes
    \cup [kind : {"ClassDef"}, name : {<<"A">>},
          body : SeqsUpTo(PyFunctionNodes, MaxMembers)]
    \cup {[kind |-> "Assign", name |-> <<"x">>, body |-> <<>>]}
PyPaths == { <<"a", ".", "p", "y">>, Str_test \o <<"_", "a", ".", "p", "y">> }

InitPy ==
    /\ AnalyzeIdle
    /\ ParseIdle
    /\ NameIdle
    /\ MatchIdle
    /\ JsIdle
    /\ CmbIdle
    /\ MdIdle
    /\ py_tree \in {[ok |-> FALSE, body |-> <<>>]}
                   \cup [ok : {TRUE}, body : SeqsUpTo(PyNodes, MaxNodes)]
    /\ py_path \in PyPaths
    /\ py_pc = "call"
    /\ py_functions = <<>>

\* parse_python(code, file_path)
ParsePy ==
    /\ py_pc = "call"
    /\ py_functions' = ParsePython(py_tree, py_path)
    /\ py_pc' = "returned"
    /\ UNCHANGED <<analyze_vars, parse_vars, name_vars, match_vars, js_vars, cmb_vars, md_vars,
                   py_tree, py_path>>

NextPy == ParsePy

SpecPy == InitPy /\ [][NextPy]_vars

(* ---------------------------------------------------------------------- *)
(* The two branches of HybridComparator.compare that consult the engine,   *)
(* as a function of the overall similarity and the engine's confidence      *)
(* ---------------------------------------------------------------------- *)
\* the confidence compare returns on its last two branches
EngineBranchConfidence(score, llm_confidence) ==
    LET sim == [score |-> score, method |-> "hybrid", confidence |-> score]
        llm_result == [matches |-> llm_confidence >= 80,
                       confidence |-> llm_confidence, issues |-> <<>>]
    IN IF RGe(score, EmbeddingThresholdMedium)
       THEN HybridComparison(sim, llm_result).confidence
       ELSE LlmFocusedComparison(sim, llm_result).confidence

\* overall similarities from 0.2 on, around the thresholds 0.3, 0.6 and 0.85
ScoreGrid == {Rat(k, 100) : k \in {20, 25, 30, 35, 55, 59, 60, 61, 84, 85, 100}}
\* engine confidences in [0, 100]
LlmGrid == {0, 50, 60, 61, 62, 80, 81, 100}

InitCmb ==
    /\ AnalyzeIdle
    /\ ParseIdle
    /\ NameIdle
    /\ MatchIdle
    /\ JsIdle
    /\ PyIdle
    /\ MdIdle
    /\ cmb_low \in ScoreGrid
    /\ cmb_high \in {h \in ScoreGrid : RGe(h, cmb_low)}
    /\ cmb_llm \in LlmGrid
    /\ cmb_pc = "call"
    /\ cmb_conf_low = 0
    /\ cmb_conf_high = 0

\* the branch is applied to both similarities
Combine ==
    /\ cmb_pc = "call"
    /\ cmb_conf_low' = EngineBranchConfidence(cmb_low, cmb_llm)
    /\ cmb_conf_high' = EngineBranchConfidence(cmb_high, cmb_llm)
    /\ cmb_pc' = "returned"
    /\ UNCHANGED <<analyze_vars, parse_vars, name_vars, match_vars, js_vars, py_vars, md_vars,
                   cmb_low, cmb_high, cmb_llm>>

NextCmb == Combine

SpecCmb == InitCmb /\ [][NextCmb]_vars

(* ---------------------------------------------------------------------- *)
(* markdown_parser.parse_markdown                                          *)
(* A line is given by what the heading pattern ^(#{1,6})\s+(.+)$ makes of   *)
(* it: level 0 for a line that is not a heading, else the number of '#'     *)
(* and the heading text.  The lines that are not headings are plain text:   *)
(* no code fence and no inline name(...) reference, so the code-block and   *)
(* inline-reference branches add no signature.                              *)
(* ---------------------------------------------------------------------- *)
\* most lines in a document
MaxLines == 2

\* the backquote character, which a TLA+ string cannot hold
Backquote == "backquote"

RECURSIVE LStrip(_, _)
LStrip(s, cs) == IF s # <<>> /\ s[1] \in cs THEN LStrip(Tail(s), cs) ELSE s
RECURSIVE RStrip(_, _)
RStrip(s, cs) ==
    IF s # <<>> /\ s[Len(s)] \in cs THEN RStrip(SubSeq(s, 1, Len(s) - 1), cs) ELSE s
\* s.strip(cs)
Strip(s, cs) == RStrip(LStrip(s, cs), cs)

\* text.replace('()', '')
RECURSIVE RemoveParens(_)
RemoveParens(s) ==
    IF Len(s) < 2 THEN s
    ELSE IF s[1] = "(" /\ s[2] = ")" THEN RemoveParens(SubSeq(s, 3, Len(s)))
    ELSE <<s[1]>> \o RemoveParens(Tail(s))

IsAlpha(c) == IsUpper(c) \/ IsLower(c)
IsAlnum(c) == IsAlpha(c) \/ c \in DigitChars

\* re.match(r'^[a-zA-Z_][a-zA-Z0-9_.-]*$', s)
IdentifierPattern(s) ==
    /\ s # <<>>
    /\ IsAlpha(s[1]) \/ s[1] = "_"
    /\ \A i \in 2..Len(s) : IsAlnum(s[i]) \/ s[i] \in {"_", ".", "-"}

\* re.match(r'^[a-zA-Z][a-zA-Z0-9]*$', w)
WordPattern(w) ==
    /\ w # <<>>
    /\ IsAlpha(w[1])
    /\ \A i \in 2..Len(w) : IsAlnum(w[i])

\* the positions where the words of s.split() start
WordStarts(s) == {k \in 1..Len(s) : s[k] # " " /\ (k = 1 \/ s[k - 1] = " ")}

\* skip_words of _looks_like_function_name
SkipWords ==
    {<<"p", "a", "r", "a", "m", "e", "t", "e", "r", "s">>,
     <<"p", "a", "r", "a", "m", "e", "t", "e", "r">>,
     <<"r", "e", "t", "u", "r", "n", "s">>,
     <<"r", "e", "t", "u", "r", "n">>,
     <<"d", "e", "s", "c", "r", "i", "p", "t", "i", "o", "n">>,
     <<"o", "v", "e", "r", "v", "i", "e", "w">>,
     <<"i", "n", "t", "r", "o", "d", "u", "c", "t", "i", "o", "n">>,
     <<"g", "e", "t", "t", "i", "n", "g", " ", "s", "t", "a", "r", "t", "e", "d">>,
     <<"i", "n", "s", "t", "a", "l", "l", "a", "t", "i", "o", "n">>,
     <<"c", "h", "a", "n", "g", "e", "l", "o", "g">>,
     <<"c", "o", "n", "t", "r", "i", "b", "u", "t", "i", "n", "g">>,
     <<"l", "i", "c", "e", "n", "s", "e">>,
     <<"a", "p", "i", " ", "r", "e", "f", "e", "r", "e", "n", "c", "e">>}

\* the articles and prepositions a multi-word name may not start with
LeadingWords ==
    {<<"t", "h", "e">>,
     <<"a">>,
     <<"a", "n">>,
     <<"h", "o", "w">>,
     <<"w", "h", "a", "t">>,
     <<"w", "h", "e", "n">>,
     <<"w", "h", "e", "r", "e">>,
     <<"w", "h", "y">>,
     <<"t", "o">>}

\* _looks_like_function_name(text); clean_text[0] raises IndexError when the
\* text is made of '()' only, which no heading here is
LooksLikeFunctionName(text0) ==
    LET text == Strip(text0, {Backquote})
        clean_text == Strip(RemoveParens(text), {" "})
        starts == WordStarts(clean_text)
        words == {SubSeq(clean_text, i, WordEnd(clean_text, i)) : i \in starts}
        first == CHOOSE i \in starts : \A j \in starts : i <= j
        spaced == \E i \in 1..Len(clean_text) : clean_text[i] = " "
    IN IF Len(text) < 2 THEN FALSE
       ELSE IF Lower(text) \in SkipWords THEN FALSE
       ELSE IF Cardinality(starts) > 4 THEN FALSE
       ELSE IF Len(clean_text) > 70 THEN FALSE
       ELSE IF ~IsAlpha(clean_text[1]) /\ clean_text[1] # "_" THEN FALSE
       ELSE IF ~spaced /\ IdentifierPattern(clean_text) THEN TRUE
       ELSE IF /\ spaced
               /\ Cardinality(starts) \in 2..4
               /\ Lower(SubSeq(clean_text, first, WordEnd(clean_text, first)))
                      \notin LeadingWords
               /\ \A w \in words : WordPattern(w)
            THEN TRUE
       ELSE IdentifierPattern(clean_text)

\* position of the last c in s, 0 when there is none
LastIndex(s, c) ==
    IF \E i \in 1..Len(s) : s[i] = c
    THEN CHOOSE i \in 1..Len(s) : s[i] = c /\ \A j \in (i + 1)..Len(s) : s[j] # c
    ELSE 0

\* os.path.basename(filename)
BaseName(path) == SubSeq(path, LastIndex(path, "/") + 1, Len(path))

\* os.path.splitext(p)[0]: a leading run of dots starts no extension
SplitExtRoot(p) ==
    LET d == LastIndex(p, ".")
    IN IF d = 0 \/ \A i \in 1..(d - 1) : p[i] = "." THEN p ELSE SubSeq(p, 1, d - 1)

\* re.sub(r'^doc[-_]?', '', base_name, flags=re.IGNORECASE)
StripDocPrefix(base_name) ==
    IF Len(base_name) >= 3 /\ Lower(SubSeq(base_name, 1, 3)) = <<"d", "o", "c">>
    THEN IF Len(base_name) >= 4 /\ base_name[4] \in {"-", "_"}
         THEN SubSeq(base_name, 5, Len(base_name))
         ELSE SubSeq(base_name, 4, Len(base_name))
    ELSE base_name

\* filename_func_name; <<>> stands for None
FilenameFuncName(file_name) ==
    IF file_name = <<>> THEN <<>>
    ELSE LET base_name == SplitExtRoot(BaseName(file_name))
             name == StripDocPrefix(base_name)
         IN IF name # <<>> /\ name # base_name THEN name ELSE <<>>

\* _parse_function_from_heading, a signature given by its name and line
ParseFunctionFromHeading(heading, heading_line) ==
    [name |-> Strip(heading, {Backquote}), line_number |-> heading_line]

\* the state before the loop; <<>> stands for None
NoHeading == [functions |-> <<>>, current_heading |-> <<>>, current_heading_line |-> 0]

\* the loop over the lines, from line i on
RECURSIVE HeadingLoop(_, _, _)
HeadingLoop(lines, i, st) ==
    IF i > Len(lines) THEN st
    ELSE IF lines[i].level = 0 THEN HeadingLoop(lines, i + 1, st)
    ELSE LET finalized ==
                 IF /\ lines[i].level = 2
                    /\ st.current_heading # <<>>
                    /\ LooksLikeFunctionName(st.current_heading)
                 THEN Append(st.functions,
                             ParseFunctionFromHeading(st.current_heading,
                                                      st.current_heading_line))
                 ELSE st.functions
         IN IF lines[i].level = 2
            THEN HeadingLoop(lines, i + 1,
                     [functions |-> finalized,
                      current_heading |-> Strip(lines[i].text, {" "}),
                      current_heading_line |-> i])
            ELSE HeadingLoop(lines, i + 1, [st EXCEPT !.functions = finalized])

\* skip_descriptive_words
DescriptiveWords ==
    {<<"p", "e", "r", "f", "e", "c", "t">>,
     <<"d", "o", "c", "u", "m", "e", "n", "t", "a", "t", "i", "o", "n">>,
     <<"d", "e", "s", "c", "r", "i", "p", "t", "i", "o", "n">>,
     <<"o", "v", "e", "r", "v", "i", "e", "w">>,
     <<"i", "n", "t", "r", "o", "d", "u", "c", "t", "i", "o", "n">>,
     <<"g", "u", "i", "d", "e">>,
     <<"t", "u", "t", "o", "r", "i", "a", "l">>,
     <<"e", "x", "a", "m", "p", "l", "e">>,
     <<"e", "x", "a", "m", "p", "l", "e", "s">>}

\* is_descriptive
IsDescriptive(heading) == \E word \in DescriptiveWords : Contains(Lower(heading), word)

\* the statements after the loop: the name from the file name, else the last
\* heading, then the second attempt at the file name
Finalize(st, file_name) ==
    LET name == FilenameFuncName(file_name)
        functions ==
            IF name # <<>> /\ LooksLikeFunctionName(name)
            THEN Append(st.functions, ParseFunctionFromHeading(name, 1))
            ELSE IF /\ st.current_heading # <<>>
                    /\ LooksLikeFunctionName(st.current_heading)
                    /\ ~IsDescriptive(st.current_heading)
            THEN Append(st.functions,
                        ParseFunctionFromHeading(st.current_heading,
                                                 st.current_heading_line))
            ELSE st.functions
    IN IF /\ functions = <<>>
          /\ file_name # <<>>
          /\ name # <<>>
          /\ LooksLikeFunctionName(name)
       THEN <<ParseFunctionFromHeading(name, 1)>>
       ELSE functions

\* the deduplication by lower-cased name, keeping the first occurrence
Deduplicate(functions) ==
    LET kept == {k \in 1..Len(functions) :
                    \A j \in 1..(k - 1) : Lower(functions[j].name) # Lower(functions[k].name)}
        pick[k \in 0..Len(functions)] ==
            IF k = 0 THEN <<>>
            ELSE IF k \in kept THEN Append(pick[k - 1], functions[k]) ELSE pick[k - 1]
    IN pick[Len(functions)]

\* parse_markdown(code, filename)
ParseMarkdown(lines, file_name) ==
    Deduplicate(Finalize(HeadingLoop(lines, 1, NoHeading), file_name))

MdHeadings ==
    {<<"a", "a">>,
     <<"b", "b">>,
     <<"o", "v", "e", "r", "v", "i", "e", "w">>,
     <<"u", "s", "e", "r", " ", "g", "u", "i", "d", "e">>}
MdLines ==
    [level : {2}, text : MdHeadings]
    \cup {[level |-> 3, text |-> <<"P", "a", "r", "a", "m", "e", "t", "e", "r", "s">>],
          [level |-> 0, text |-> <<"x">>]}
MdFileNames ==
    {<<>>,
     <<"a", "p", "i", ".", "m", "d">>,
     <<"d", "o", "c", "_", "c", "c", ".", "m", "d">>,
     <<"d", "o", "c", ".", "m", "d">>,
     <<"d", "o", "c", "s", "/", "a", "p", "i", ".", "m", "d">>}

InitMd ==
    /\ AnalyzeIdle
    /\ ParseIdle
    /\ NameIdle
    /\ MatchIdle
    /\ JsIdle
    /\ PyIdle
    /\ CmbIdle
    /\ md_lines \in SeqsUpTo(MdLines, MaxLines)
    /\ md_filename \in MdFileNames
    /\ md_pc = "call"
    /\ md_functions = <<>>

\* parse_markdown(code, filename)
ParseMd ==
    /\ md_pc = "call"
    /\ md_functions' = ParseMarkdown(md_lines, md_filename)
    /\ md_pc' = "returned"
    /\ UNCHANGED <<analyze_vars, parse_vars, name_vars, match_vars, js_vars, py_vars,
                   cmb_vars, md_lines, md_filename>>

NextMd == ParseMd

SpecMd == InitMd /\ [][NextMd]_vars

(* ====================================================================== *)
(* Properties                                                              *)
(* ====================================================================== *)
\* the pairs the loop has completed
Processed == 1..Len(methods_used)

\* result is the comparator's answer for pair idx - 1, the pair just completed
LastCompared ==
    /\ pc \in {"loop", "done"}
    /\ idx > 1
    /\ Len(methods_used) = idx - 1
    /\ methods_used[idx - 1] # "unmatched"

\* the pair was made by the exact-name pass (names equal ignoring case)
SameName(pair) == IsMatched(pair) /\ Lower(CodeOf(pair).name) = Lower(DocOf(pair).name)

\* lower-cased parameter names on exactly one side of the pair
DifferingParams(pair) ==
    (ParamNameSet(CodeOf(pair).parameters) \ ParamNameSet(DocOf(pair).parameters))
    \cup (ParamNameSet(DocOf(pair).parameters) \ ParamNameSet(CodeOf(pair).parameters))

RECURSIVE SumSeq(_)
SumSeq(q) == IF q = <<>> THEN 0 ELSE q[1] + SumSeq(Tail(q))

(* C1: match emits no signature twice: no code signature and no             *)
(* documentation signature occurs in two of the emitted pairs.              *)
C1_NoSignatureInTwoPairs ==
    \A i, j \in 1..Len(matches) :
        i # j => /\ (matches[i][1] = 0 \/ matches[i][1] # matches[j][1])
                 /\ (matches[i][2] = 0 \/ matches[i][2] # matches[j][2])

(* C2: every result of HybridComparator.compare has matches true exactly    *)
(* when its confidence is at least 80, whichever branch produced it.        *)
C2_MatchesIffConfident ==
    result.method # "none" => (result.matches <=> result.confidence >= 80)

(* C3: a remote failure that outlasts the retries (rate limit or other      *)
(* transient failure) never aborts analyze.                                 *)
C3_RemoteFailureNeverAborts ==
    ~(pc = "aborted" /\ error \in {"rate_limit", "transient"})

(* C4: with the credential missing, a comparison that reaches the engine's  *)
(* remote call raises the configuration error at once: no request is        *)
(* posted, no backoff sleep happens, and the pair gets no result.           *)
C4_MissingKeyRaisesAtOnce ==
    (~api_key /\ engine_calls > 0) =>
        /\ requests = 0
        /\ sleeps = <<>>
        /\ attempt = 0
        /\ pc \in {"engine", "aborted"}
        /\ (pc = "aborted" => error = "config")
        /\ Len(confidence_scores) = idx - 1
        /\ report = NoReport

C4_Witness == ~api_key /\ pc = "aborted" /\ error = "config" /\ requests = 0

(* C5: analyze of two empty lists reports trust_score 100, no functions,    *)
(* nothing verified and no issue, and calls neither the similarity scorer   *)
(* nor the engine.                                                          *)
C5_EmptyAnalyze ==
    (code_functions = <<>> /\ doc_functions = <<>>) =>
        /\ similarity_calls = 0
        /\ engine_calls = 0
        /\ pc # "aborted"
        /\ (pc = "done" =>
               /\ report.trust_score = 100
               /\ report.total_functions = 0
               /\ report.verified = 0
               /\ report.issues = <<>>)

C5_Witness == code_functions = <<>> /\ doc_functions = <<>> /\ pc = "done"

(* C6 as stated: with at least one pair, trust_score is the integer         *)
(* nearest to the sum of the per-pair confidences over the number of pairs. *)
C6_TrustScoreRounded ==
    (pc = "done" /\ Len(matches) > 0) =>
        2 * Abs(report.trust_score * Len(matches) - SumSeq(confidence_scores))
            <= Len(matches)

(* C6 amended: trust_score is that quotient truncated toward zero (the      *)
(* fraction is dropped, not rounded), and 100 when there is no pair.        *)
C6_TrustScoreTruncated ==
    pc = "done" =>
        LET n == Len(matches)
            total == SumSeq(confidence_scores)
            t == report.trust_score
        IN IF n = 0 THEN t = 100
           ELSE IF total >= 0 THEN t * n <= total /\ total < (t + 1) * n
           ELSE (t - 1) * n < total /\ total <= t * n

C6_Witness ==
    /\ pc = "done"
    /\ Len(matches) > 0
    /\ SumSeq(confidence_scores) > 0
    /\ 2 * (SumSeq(confidence_scores) % Len(matches)) > Len(matches)

(* C7: a one-sided pair adds exactly one issue (medium "documented function *)
(* not found in code" for a doc-only pair, low "not documented" for a       *)
(* code-only pair), adds nothing to the confidence total or the verified    *)
(* count, and does not invoke the comparator.                               *)
C7_OneSidedPair ==
    [][(AtPair /\ ~IsMatched(matches[idx])) =>
          /\ Len(all_issues') = Len(all_issues) + 1
          /\ SubSeq(all_issues', 1, Len(all_issues)) = all_issues
          /\ all_issues'[Len(all_issues')].severity =
                 (IF IsDocOnly(matches[idx]) THEN "medium" ELSE "low")
          /\ all_issues'[Len(all_issues')].issue =
                 (IF IsDocOnly(matches[idx])
                  THEN "Documented function not found in code"
                  ELSE "Function exists in code but is not documented")
          /\ confidence_scores' = Append(confidence_scores, 0)
          /\ total_confidence' = total_confidence
          /\ verified' = verified
          /\ similarity_calls' = similarity_calls
          /\ engine_calls' = engine_calls
          /\ result' = result
          /\ pc' = "loop"]_vars

C7_Witness ==
    /\ \E i \in Processed : IsDocOnly(matches[i]) /\ methods_used[i] = "unmatched"
    /\ \E i \in Processed : IsCodeOnly(matches[i]) /\ methods_used[i] = "unmatched"

(* C8: a pair whose lower-cased parameter-name sets differ, or whose        *)
(* parameter counts differ, is never answered with method "embedding_only". *)
C8_NoFastPathOnMismatch ==
    \A i \in Processed :
        (/\ IsMatched(matches[i])
         /\ \/ ParamNameSet(CodeOf(matches[i]).parameters)
                   # ParamNameSet(DocOf(matches[i]).parameters)
            \/ Len(CodeOf(matches[i]).parameters) # Len(DocOf(matches[i]).parameters))
        => methods_used[i] # "embedding_only"

C8_Witness ==
    \E i \in Processed :
        /\ IsMatched(matches[i])
        /\ DifferingParams(matches[i]) # {}
        /\ RGe(ComputeSimilarity(CodeOf(matches[i]), DocOf(matches[i]), encoder).score,
               EmbeddingThresholdHigh)
        /\ methods_used[i] = "hybrid"

(* C9: for a pair matched by exact name whose parameter-name sets differ,   *)
(* the issues of the comparison include one that names a differing          *)
(* parameter, whatever the reasoning service replied.                       *)
C9_ParameterIssueReported ==
    (/\ LastCompared
     /\ SameName(matches[idx - 1])
     /\ DifferingParams(matches[idx - 1]) # {})
    => \E k \in 1..Len(result.issues) :
           /\ result.issues[k].param # NoParam
           /\ Lower(result.issues[k].param) \in DifferingParams(matches[idx - 1])

(* C11: when the service answers the second call as it answered the first,  *)
(* the second call of analyze on the same inputs returns the trust_score    *)
(* and the issue list the first call returned.                              *)
C11_SecondRunSameReport ==
    (run = 2 /\ pc = "done") =>
        /\ report.trust_score = first_report.trust_score
        /\ report.issues = first_report.issues

C11_Witness ==
    /\ run = 2
    /\ pc = "done"
    /\ engine_calls > 0
    /\ Len(first_report.issues) > 1
    /\ first_report.trust_score \notin {0, 100}

(* C12: parse_code never raises: blank text gives [], an unsupported        *)
(* suffix gives [], and an exception in a language extractor gives [].      *)
C12_DispatcherNeverRaises ==
    /\ parse_pc # "raised"
    /\ parse_pc = "returned" =>
          /\ (code = <<>> \/ IsBlank(code)) => parsed = <<>>
          /\ (\A k \in 1..Len(Routes) : ~EndsWith(Lower(filename), Routes[k][2]))
                 => parsed = <<>>
          /\ extractor # "returns" => parsed = <<>>

C12_Witness ==
    /\ parse_pc = "returned"
    /\ ~IsBlank(code)
    /\ Route(filename) = "python"
    /\ extractor = "exception"

(* C13: the name similarity of a and b equals that of b and a, and it is    *)
(* 1.0 when the two names are equal.                                        *)
C13_NameSimilaritySymmetric ==
    name_pc = "returned" =>
        /\ score12 = score21
        /\ name1 = name2 => score12 = <<1, 1>>

\* every tier has answered: exact, normalised-equal, the three word-overlap
\* tiers and the edit-distance fallback
C13_Witness ==
    /\ name_pc = "returned"
    /\ name1 # name2
    /\ Len(name1) < Len(name2)
    /\ score12 = <<7, 10>>

(* C14: match loses no input: every code signature and every documentation *)
(* signature of the input is in at least one emitted pair, every pair has   *)
(* at least one side, and there are at least as many pairs as code          *)
(* signatures, in the semantic mode and in the name-only mode.              *)
C14_MatchLosesNoInput ==
    pc = "matched" =>
        /\ \A c \in 1..Len(code_functions) :
               \E k \in 1..Len(matches) : matches[k][1] = c
        /\ \A d \in 1..Len(doc_functions) :
               \E k \in 1..Len(matches) : matches[k][2] = d
        /\ \A k \in 1..Len(matches) : matches[k][1] # 0 \/ matches[k][2] # 0
        /\ Len(matches) >= Len(code_functions)

\* every reply the service gave in this call was confidence 95 with no issues
StubbedAt95 ==
    \A k \in 1..Len(service_log) :
        /\ service_log[k][2].kind = "json"
        /\ service_log[k][2].confidence = 95
        /\ service_log[k][2].issues = <<>>

(* C15: when the documentation lists exactly the code's signatures (same    *)
(* names, parameters, return types, docstrings) and the service answers 95  *)
(* with no issues, analyze returns trust_score 100, verified equal to       *)
(* total_functions and no issues.                                           *)
C15_IdenticalInputsFullTrust ==
    (/\ pc = "done"
     /\ code_functions = doc_functions
     /\ \A i, j \in 1..Len(code_functions) :
            i # j => Lower(code_functions[i].name) # Lower(code_functions[j].name)
     /\ StubbedAt95)
    => /\ report.trust_score = 100
       /\ report.verified = report.total_functions
       /\ report.issues = <<>>

(* C16: every issue in the report of analyze has a severity among low,     *)
(* medium and high, whatever severity the service wrote in its reply.       *)
C16_ReportSeverities ==
    pc = "done" =>
        \A k \in 1..Len(report.issues) :
            report.issues[k].severity \in {"low", "medium", "high"}

\* the ComparisonResult GeminiComparator.compare returned for the k-th logged reply
EngineResult(k) ==
    ParseResponse(service_log[k][2], CodeOf(matches[service_log[k][1]]).name)

(* C17: every ComparisonResult the engine returned has a confidence in      *)
(* 0..100 and matches equal to (confidence >= 80), whatever the reply said. *)
C17_EngineResultWellFormed ==
    \A k \in 1..Len(service_log) :
        /\ EngineResult(k).confidence \in 0..100
        /\ EngineResult(k).matches <=> (EngineResult(k).confidence >= 80)

(* C18: parsing the service's reply never raises: no reply makes the        *)
(* comparison, and with it analyze, end with an exception from the parsing. *)
C18_ParsingNeverRaises ==
    ~(pc = "aborted" /\ error = "parse")

C20_OneSignaturePerDeclaration ==
    (/\ js_pc = "returned"
     /\ \A d \in 1..Len(js_decls) : js_decls[d].kind = "function")
    => /\ Len(js_functions) = Len(js_decls)
       /\ \A d \in 1..Len(js_decls) : js_functions[d].name = js_decls[d].name

\* the names of the functions and methods a module body declares, in order
RECURSIVE Declared(_)
Declared(body) ==
    IF body = <<>> THEN <<>>
    ELSE (IF Head(body).kind \in {"FunctionDef", "AsyncFunctionDef"}
          THEN <<Head(body).name>>
          ELSE IF Head(body).kind = "ClassDef"
          THEN Declared(Head(body).body)
          ELSE <<>>)
         \o Declared(Tail(body))

(* C21: for a file that is not a test file, the Python extractor returns    *)
(* one signature, in declaration order, for every top-level function and    *)
(* every class method, synchronous (def) or asynchronous (async def).       *)
C21_EveryDeclarationExtracted ==
    (py_pc = "returned" /\ py_tree.ok /\ ~IsTestFile(py_path))
    => py_functions = Declared(py_tree.body)

(* C22: match completes the exact-name pass before any similarity pairing: *)
(* a documentation signature whose name equals, ignoring case, the name of  *)
(* some code signature is never paired by similarity with a code signature  *)
(* of another name, whatever the order of the code list.                    *)
C22_ExactPassFirst ==
    pc = "matched" =>
        \A k \in 1..Len(matches) :
            (/\ matches[k][1] # 0
             /\ matches[k][2] # 0
             /\ Lower(code_functions[matches[k][1]].name)
                    # Lower(doc_functions[matches[k][2]].name))
            => \A c \in 1..Len(code_functions) :
                   Lower(code_functions[c].name)
                       # Lower(doc_functions[matches[k][2]].name)

\* the method the comparison of a matched pair is to end with
ExpectedMethod(pair) ==
    LET score == ComputeSimilarity(CodeOf(pair), DocOf(pair), encoder).score
        name_score == ComputeNameSimilarity(CodeOf(pair).name, DocOf(pair).name)
    IN IF RLt(score, Rat(2, 10)) \/ RLt(name_score, Rat(3, 10))
       THEN "embedding_only_very_low"
       ELSE IF /\ RGe(score, Rat(85, 100))
               /\ DifferingParams(pair) = {}
               /\ Len(CodeOf(pair).parameters) = Len(DocOf(pair).parameters)
       THEN "embedding_only"
       ELSE IF RGe(score, Rat(6, 10)) THEN "hybrid" ELSE "llm_focused"

C24_TransientFailureRetried ==
    [][EngineOtherError =>
          IF attempt < 2
          THEN /\ sleeps' = Append(sleeps, IF attempt = 0 THEN 1 ELSE 2)
               /\ attempt' = attempt + 1
               /\ pc' = "engine"
               /\ error' = ""
               /\ attempt' < 3
          ELSE /\ pc' = "aborted"
               /\ error' = "transient"
               /\ sleeps' = sleeps]_vars

C24_Witness ==
    /\ pc = "aborted"
    /\ error = "transient"
    /\ requests = 3
    /\ sleeps = <<1, 2>>

(* C26: an HTTP error whose status is not 429 is never retried: on any      *)
(* attempt it propagates to the caller right after the request that got it,  *)
(* with no backoff wait and no further request.                              *)
C26_HttpErrorNotRetried ==
    [][/\ EngineHttpError =>
             /\ pc' = "aborted"
             /\ error' = "http_error"
             /\ sleeps' = sleeps
             /\ attempt' = attempt
       /\ (pc = "aborted" /\ error = "http_error") =>
             (requests' = requests /\ sleeps' = sleeps /\ pc' = pc)]_vars

C26_Witness ==
    /\ pc = "aborted"
    /\ error = "http_error"
    /\ requests = 2
    /\ sleeps = <<1>>

(* C27: every invocation of the engine's remote call ends, by returning a  *)
(* reply or by raising, after at most 3 requests, whatever the service      *)
(* answers; a request that succeeds is the last step of the call, and a     *)
(* backoff wait happens only between two attempts, never after the third.   *)
C27_RemoteCallTerminates ==
    /\ [](/\ requests <= 3
          /\ Len(sleeps) <= 2
          /\ pc = "engine" => (requests = attempt /\ Len(sleeps) = attempt /\ attempt < 3))
    /\ [][/\ (pc = "engine" /\ pc' = "engine") =>
                /\ requests' = requests + 1
                /\ Len(sleeps') = Len(sleeps) + 1
          /\ (pc = "engine" /\ pc' # "engine") => Len(sleeps') <= Len(sleeps)
          /\ EngineReply => pc' # "engine"]_vars
    /\ (pc = "engine") ~> (pc # "engine")

C27_Witness ==
    /\ pc = "done"
    /\ idx = 2
    /\ engine_calls = 1
    /\ Len(service_log) = 1
    /\ methods_used[1] \in {"hybrid", "llm_focused"}

(* C28: analyze counts a matched pair as verified, and drops the            *)
(* comparator's issues for it, only if the comparator's result for the pair  *)
(* has matches true; the high-severity issue of an embedding_only_very_low   *)
(* result is never dropped.                                                  *)
C28_VerifiedOnlyIfMatches ==
    [][(/\ Len(methods_used') = Len(methods_used) + 1
        /\ methods_used'[Len(methods_used')] # "unmatched")
       => /\ verified' > verified => result'.matches
          /\ ~result'.matches => all_issues' = all_issues \o result'.issues
          /\ result'.method = "embedding_only_very_low" =>
                \E k \in 1..Len(all_issues') :
                    /\ all_issues'[k].severity = "high"
                    /\ all_issues'[k] = result'.issues[1]]_vars

(* C29: every result of compare with method embedding_only has matches     *)
(* true, confidence at least 85 and no issue: on that path the structural    *)
(* parameter check finds no missing and no phantom parameter.                *)
C29_EmbeddingOnlyClean ==
    /\ result.method = "embedding_only" =>
          /\ result.matches
          /\ result.confidence >= 85
          /\ result.issues = <<>>
    /\ \A i \in Processed :
          (IsMatched(matches[i]) /\ methods_used[i] = "embedding_only") =>
              /\ confidence_scores[i] >= 85
              /\ QuickIssueCheck(CodeOf(matches[i]), DocOf(matches[i])) = <<>>

C29_Witness ==
    /\ LastCompared
    /\ result.method = "embedding_only"
    /\ result.confidence = 85

(* C30: for a fixed engine confidence in [0,100] the combined confidence   *)
(* of the engine-consulting branches (llm_focused for a similarity from 0.2  *)
(* below 0.6, hybrid from 0.6 on) never decreases when the overall           *)
(* similarity increases, also across 0.3 and across 0.6, and it stays in     *)
(* [0,100].                                                                  *)
C30_CombinedConfidenceMonotone ==
    cmb_pc = "returned" =>
        /\ cmb_conf_low <= cmb_conf_high
        /\ cmb_conf_low \in 0..100
        /\ cmb_conf_high \in 0..100

(* C25: in parse_markdown the name taken from the file name is used only   *)
(* when no second-level heading qualifies as a function name; when at      *)
(* least one qualifies, every qualifying second-level heading, the last    *)
(* one included, has its own signature in the result, also when the file   *)
(* name starts with 'doc'.  A heading qualifies when                       *)
(* _looks_like_function_name accepts it and it holds no descriptive word.  *)
HeadingName(line) == Strip(Strip(line.text, {" "}), {Backquote})
QualifyingHeadings(lines) ==
    {i \in 1..Len(lines) :
        /\ lines[i].level = 2
        /\ LooksLikeFunctionName(Strip(lines[i].text, {" "}))
        /\ ~IsDescriptive(Strip(lines[i].text, {" "}))}
C25_HeadingsBeforeFallback ==
    (md_pc = "returned" /\ QualifyingHeadings(md_lines) # {}) =>
        /\ \A i \in QualifyingHeadings(md_lines) :
               \E k \in 1..Len(md_functions) :
                   Lower(md_functions[k].name) = Lower(HeadingName(md_lines[i]))
        /\ \A k \in 1..Len(md_functions) :
               \E i \in 1..Len(md_lines) :
                   /\ md_lines[i].level = 2
                   /\ Lower(md_functions[k].name) = Lower(HeadingName(md_lines[i]))

(* C10: without the embedding signal, two identical signatures have         *)
(* similarity about 1.0 and confidence at least 80, and the pair is counted *)
(* as verified.                                                             *)
C10_IdenticalSignaturesVerified ==
    (/\ LastCompared
     /\ CodeOf(matches[idx - 1]) = DocOf(matches[idx - 1])
     /\ encoder \in {"none", "raises"})
    => /\ RGe(result.embedding_score, Rat(99, 100))
       /\ result.confidence >= 80
       /\ confidence_scores[idx - 1] >= 80
       /\ verified >= 1

====
